---- MODULE Spec2Model ----
(***************************************************************************)
(* The incremental evaluation engine of src/src/bin.ts: the eval instance  *)
(* (input, output, version, lines), appendEval and its undo handles, _eval *)
(* (compile, diffLines, exec), replEval's classification of failures, the  *)
(* .type command and the REPL reset.                                       *)
(*                                                                         *)
(* Text is a sequence of one-character strings.  Compiled output is a      *)
(* sequence of line tokens (each a sequence of characters, its line break  *)
(* implied), which is how diffLines tokenizes it.                          *)
(***************************************************************************)
EXTENDS Integers, Sequences, FiniteSets, TLC

\* Longest fragment handed to replEval / the .type command / read as main file.
MaxFrag == 2
\* Longest buffer (EVAL_INSTANCE.input) the model lets a session build.
MaxInput == 5
\* Longest identifier handed to the .type command.
MaxIdent == 1
\* Longest existing input appendEval is applied to on its own.
MaxOld == 3
\* Most diagnostic codes carried by one TSError.
MaxCodes == 2

NL == "\n"
\* What a session types: "(": a statement that opens with a parenthesis,
\* "e": an export statement, "x": a token the compiler rejects, and the line
\* break.  The semicolon enters the buffer through appendEval.
Char == {"(", "e", "x", NL}

\* The characters of the class [\[\(\`] of bin.ts 237; the module's lexer
\* accepts no backtick in a string, so a name stands for that character.
Backtick == "backtick"
Openers == {"[", "(", Backtick}

\* Characters the regular expression class \s matches.
Whitespace == {" ", "\t", NL}

\* All texts of length lo..hi.
Texts(lo, hi) == UNION {[1..n -> Char] : n \in lo..hi}

Last(s) == s[Len(s)]
Front(s) == SubSeq(s, 1, Len(s) - 1)

(***************************************************************************)
(* lineCount (bin.ts 258-268): the number of "\n" characters.              *)
(***************************************************************************)
RECURSIVE lineCount(_)
lineCount(value) ==
  IF value = <<>> THEN 0
  ELSE (IF value[1] = NL THEN 1 ELSE 0) + lineCount(Tail(value))

\* The test of bin.ts 73: the text ends with a line break.
EndsWithNewline(s) == Len(s) > 0 /\ Last(s) = NL

\* The test of bin.ts 237: after leading whitespace the text opens with
\* a square bracket, a parenthesis or a backtick.
RECURSIVE StartsWithOpener(_)
StartsWithOpener(s) ==
  IF s = <<>> THEN FALSE
  ELSE IF s[1] \in Whitespace THEN StartsWithOpener(Tail(s))
  ELSE s[1] \in Openers

\* The test of bin.ts 238: the text ends with a semicolon followed only by
\* whitespace.
RECURSIVE EndsWithSemicolon(_)
EndsWithSemicolon(s) ==
  IF s = <<>> THEN FALSE
  ELSE IF Last(s) \in Whitespace THEN EndsWithSemicolon(Front(s))
  ELSE Last(s) = ";"

(***************************************************************************)
(* appendEval (bin.ts 228-253): the instance it leaves and the undo        *)
(* closure it returns.  The closure is the four values it captured;        *)
(* invoking it (Undo) assigns them back.                                   *)
(***************************************************************************)
\* The guard without its third test.
AsiHazardTwoTests(undoInput, input) ==
  /\ EndsWithNewline(undoInput)
  /\ StartsWithOpener(input)

\* bin.ts 235-239: the guard of the semicolon insertion.
AsiHazard(undoInput, input) ==
  /\ EndsWithNewline(undoInput)
  /\ StartsWithOpener(input)
  /\ ~EndsWithSemicolon(undoInput)

\* The insertion putting the semicolon in place of the line break.
InsertSemicolonOnly(text) == Front(text) \o <<";">>

\* bin.ts 240: the input without its last character, then ";\n".
InsertSemicolon(text) == Front(text) \o <<";", NL>>

\* appendEval with the input captured after the semicolon insertion.
appendEvalLateCapture(inst, input) ==
  LET guarded == IF AsiHazard(inst.input, input)
                 THEN InsertSemicolon(inst.input) ELSE inst.input
  IN [instance |-> [input |-> guarded \o input,
                    output |-> inst.output,
                    version |-> inst.version + 1,
                    lines |-> inst.lines + lineCount(input)],
      undo |-> [input |-> guarded, output |-> inst.output,
                version |-> inst.version, lines |-> inst.lines]]

appendEval(inst, input) ==
  LET undoInput == inst.input
      undoVersion == inst.version
      undoOutput == inst.output
      undoLines == inst.lines
      guarded == IF AsiHazard(undoInput, input)
                 THEN InsertSemicolon(inst.input) ELSE inst.input
  IN [instance |-> [input |-> guarded \o input,
                    output |-> inst.output,
                    version |-> inst.version + 1,
                    lines |-> inst.lines + lineCount(input)],
      undo |-> [input |-> undoInput, output |-> undoOutput,
                version |-> undoVersion, lines |-> undoLines]]

\* The closure without the assignment of bin.ts 250.
UndoKeepsVersion(handle) ==
  [input |-> handle.input, output |-> handle.output,
   version |-> handle.version + 1, lines |-> handle.lines]

\* bin.ts 247-252: invoking the closure.
Undo(handle) ==
  [input |-> handle.input, output |-> handle.output,
   version |-> handle.version, lines |-> handle.lines]

(***************************************************************************)
(* The compiler bridge, service.compile (bin.ts 41-55, 78, 147).  The      *)
(* engine reads nothing of the compiled text but its lines.  The bridge    *)
(* modelled here rejects a source holding the token "x", emits one line    *)
(* per statement (semicolons and blank lines leave no trace), and, for a   *)
(* source with export statements, a first line that lists them, so a later *)
(* export rewrites a line emitted earlier.                                 *)
(***************************************************************************)
RECURSIVE SplitLines(_, _)
SplitLines(text, cur) ==
  IF text = <<>> THEN (IF cur = <<>> THEN <<>> ELSE <<cur>>)
  ELSE IF text[1] = NL THEN <<cur>> \o SplitLines(Tail(text), <<>>)
  ELSE SplitLines(Tail(text), Append(cur, text[1]))

IsStatementChar(c) == c \notin Whitespace \cup {";"}
IsExport(c) == c = "e"
IsEmitted(line) == line # <<>>

Statement(line) == SelectSeq(line, IsStatementChar)

Body(source) ==
  LET ls == SplitLines(source, <<>>)
  IN SelectSeq([i \in 1..Len(ls) |-> Statement(ls[i])], IsEmitted)

Header(source) ==
  LET exports == SelectSeq(source, IsExport)
  IN IF exports = <<>> THEN <<>> ELSE << <<"H">> \o exports >>

\* Whether compile returns (TRUE) or throws (FALSE) for the source.
Compiles(source) == \A i \in 1..Len(source) : source[i] # "x"

\* The text compile returns for a source it accepts.
compile(source) == Header(source) \o Body(source)

(***************************************************************************)
(* diffLines of the diff package (bin.ts 5, 85), on line tokens: the       *)
(* shortest edit script found diagonal by diagonal, an insertion preferred *)
(* over a removal when both reach equally far, runs of one kind merged     *)
(* into one change, and a removal put before the insertion it follows.     *)
(***************************************************************************)
Undef == [def |-> FALSE, newPos |-> 0, components |-> <<>>]

pushComponent(components, kind) ==
  IF components # <<>> /\ Last(components).kind = kind
  THEN [components EXCEPT ![Len(components)].count = @ + 1]
  ELSE Append(components, [count |-> 1, kind |-> kind])

\* Positions are those of the library: 0-based, -1 before the first token.
RECURSIVE CommonRun(_, _, _, _)
CommonRun(new, old, newPos, oldPos) ==
  IF newPos + 1 < Len(new) /\ oldPos + 1 < Len(old)
     /\ new[newPos + 2] = old[oldPos + 2]
  THEN 1 + CommonRun(new, old, newPos + 1, oldPos + 1)
  ELSE 0

extractCommon(basePath, new, old, diagonalPath) ==
  LET commonCount ==
        CommonRun(new, old, basePath.newPos, basePath.newPos - diagonalPath)
  IN [def |-> TRUE,
      newPos |-> basePath.newPos + commonCount,
      components |->
        IF commonCount > 0
        THEN Append(basePath.components,
                    [count |-> commonCount, kind |-> "unchanged"])
        ELSE basePath.components]

RECURSIVE execEditLength(_, _, _, _, _)
execEditLength(bestPath, editLength, diagonalPath, new, old) ==
  IF diagonalPath > editLength
  THEN execEditLength(bestPath, editLength + 1, -(editLength + 1), new, old)
  ELSE
    LET addPath == bestPath[diagonalPath - 1]
        removePath == bestPath[diagonalPath + 1]
        oldPos0 == (IF removePath.def THEN removePath.newPos ELSE 0)
                   - diagonalPath
        cleared == IF addPath.def
                   THEN [bestPath EXCEPT ![diagonalPath - 1] = Undef]
                   ELSE bestPath
        canAdd == addPath.def /\ addPath.newPos + 1 < Len(new)
        canRemove == removePath.def /\ 0 <= oldPos0 /\ oldPos0 < Len(old)
    IN IF ~canAdd /\ ~canRemove
       THEN execEditLength([cleared EXCEPT ![diagonalPath] = Undef],
                           editLength, diagonalPath + 2, new, old)
       ELSE
         LET stepped ==
               IF ~canAdd \/ (canRemove /\ addPath.newPos < removePath.newPos)
               THEN [removePath EXCEPT
                       !.components = pushComponent(@, "removed")]
               ELSE [addPath EXCEPT
                       !.newPos = @ + 1,
                       !.components = pushComponent(@, "added")]
             basePath == extractCommon(stepped, new, old, diagonalPath)
             oldPos == basePath.newPos - diagonalPath
         IN IF basePath.newPos + 1 >= Len(new) /\ oldPos + 1 >= Len(old)
            THEN basePath.components
            ELSE execEditLength([cleared EXCEPT ![diagonalPath] = basePath],
                                editLength, diagonalPath + 2, new, old)

\* The edit script: a sequence of [count, kind].
Components(old, new) ==
  LET maxEditLength == Len(new) + Len(old)
      start == extractCommon([def |-> TRUE, newPos |-> -1,
                              components |-> <<>>], new, old, 0)
  IN IF start.newPos + 1 >= Len(new) /\ start.newPos + 1 >= Len(old)
     THEN <<[count |-> Len(new), kind |-> "unchanged"]>>
     ELSE execEditLength(
            [d \in -(maxEditLength + 2)..(maxEditLength + 2) |->
               IF d = 0 THEN start ELSE Undef],
            1, -1, new, old)

\* buildValues: each component with the tokens it covers.
RECURSIVE Values(_, _, _, _, _)
Values(components, new, old, newPos, oldPos) ==
  IF components = <<>> THEN <<>>
  ELSE
    LET c == components[1]
    IN IF c.kind = "removed"
       THEN <<[kind |-> c.kind,
               value |-> SubSeq(old, oldPos + 1, oldPos + c.count)]>>
            \o Values(Tail(components), new, old, newPos, oldPos + c.count)
       ELSE <<[kind |-> c.kind,
               value |-> SubSeq(new, newPos + 1, newPos + c.count)]>>
            \o Values(Tail(components), new, old, newPos + c.count,
                      IF c.kind = "added" THEN oldPos ELSE oldPos + c.count)

\* buildValues: a removal is output before the insertion it follows.
RECURSIVE RemovesFirst(_, _)
RemovesFirst(changes, pos) ==
  IF pos > Len(changes) THEN changes
  ELSE IF pos > 1 /\ changes[pos].kind = "removed"
          /\ changes[pos - 1].kind = "added"
  THEN RemovesFirst([changes EXCEPT ![pos - 1] = changes[pos],
                                    ![pos] = changes[pos - 1]], pos + 1)
  ELSE RemovesFirst(changes, pos + 1)

\* The changes: a sequence of [kind, value], value a sequence of lines.
diffLines(oldStr, newStr) ==
  RemovesFirst(Values(Components(oldStr, newStr), newStr, oldStr, 0, 0), 1)

(***************************************************************************)
(* Errors and values.  A TSError carries its diagnostic codes; its         *)
(* diagnosticText is identified with them.  Any other thrown value is a    *)
(* plain Error.  exec's value for a block is identified with the block.    *)
(***************************************************************************)
RECOVERY_CODES == {1003, 1005, 1109, 1126, 1160, 1161, 2355}

\* Diagnostic codes that are not in RECOVERY_CODES ("Cannot find name").
OtherCodes == {2304}
DiagnosticCodes == RECOVERY_CODES \cup OtherCodes

NoError == [type |-> "none", codes |-> <<>>]
PlainError == [type |-> "Error", codes |-> <<>>]
TSError(codes) == [type |-> "TSError", codes |-> codes]
Recoverable(error) == [type |-> "Recoverable", codes |-> error.codes]

CodeSeqs == UNION {[1..n -> DiagnosticCodes] : n \in 0..MaxCodes}

\* What service.compile may throw for a source it rejects.
CompileErrors == {TSError(codes) : codes \in CodeSeqs} \cup {PlainError}

\* One error of each class replEval tells apart: not a TSError, a TSError
\* with an allow-listed code, a TSError with another code.
SampleErrors ==
  {PlainError} \cup {TSError(<<c>>) : c \in {1005} \cup OtherCodes}

\* What executed code may throw: any value, a TSError among them (the
\* register hook compiles required files and exports the class).
RuntimeErrors == SampleErrors

Undefined == [def |-> FALSE, code |-> <<>>]
ValueOf(code) == [def |-> TRUE, code |-> code]

\* isRecoverable looking at the first code only.
isRecoverableFirst(error) ==
  error.codes = <<>> \/ error.codes[1] \in RECOVERY_CODES

\* isRecoverable (bin.ts 310-312)
isRecoverable(error) ==
  \A i \in 1..Len(error.codes) : error.codes[i] \in RECOVERY_CODES

\* The catch clause of replEval (bin.ts 209-220): the err handed to the
\* callback and whether console.error printed the diagnostic text.
Caught(error) ==
  IF error.type = "TSError"
  THEN IF isRecoverable(error)
       THEN [err |-> Recoverable(error), printed |-> FALSE]
       ELSE [err |-> NoError, printed |-> TRUE]
  ELSE [err |-> error, printed |-> FALSE]

\* The reducer handing every hunk of the new output to exec.
IsExecutedUnlessRemoved(change) == change.kind # "removed"

\* The reducer handing every hunk to exec.
IsExecutedEveryHunk(change) == TRUE

\* bin.ts 94: the hunks the reducer hands to exec.
IsExecuted(change) == change.kind = "added"

\* The reduce calling exec for every hunk of the diff.
ExecCallsEveryHunk(changes) ==
  [i \in 1..Len(changes) |-> changes[i].value]

\* bin.ts 93-95: the exec calls of the reduce, in order, as code blocks.
ExecCalls(changes) ==
  LET picked == SelectSeq(changes, IsExecuted)
  IN [i \in 1..Len(picked) |-> picked[i].value]

\* The reduce keeping the first exec value instead of the last.
RECURSIVE ReduceKeepsFirst(_, _)
ReduceKeepsFirst(changes, result) ==
  IF changes = <<>> THEN result
  ELSE ReduceKeepsFirst(Tail(changes),
                        IF IsExecuted(changes[1]) /\ ~result.def
                        THEN ValueOf(changes[1].value) ELSE result)

\* bin.ts 93-95: the value the reduce returns when no exec call throws.
RECURSIVE Reduce(_, _)
Reduce(changes, result) ==
  IF changes = <<>> THEN result
  ELSE Reduce(Tail(changes),
              IF IsExecuted(changes[1]) THEN ValueOf(changes[1].value)
              ELSE result)

\* The code of bin.ts 139, one line.
ExportsFix == << <<"exports = module.exports">> >>

RECURSIVE Flatten(_)
Flatten(blocks) ==
  IF blocks = <<>> THEN <<>> ELSE blocks[1] \o Flatten(Tail(blocks))

IsPrefix(s, t) == Len(s) <= Len(t) /\ SubSeq(t, 1, Len(s)) = s

\* The lines of a diff one by one: the kind of the hunk a line is in and
\* the hunk's place among the hunks handed to exec (0 for a hunk that is
\* not handed to it).
RECURSIVE DiffLinesOf(_, _)
DiffLinesOf(diff, callsBefore) ==
  IF diff = <<>> THEN <<>>
  ELSE LET nth == IF IsExecuted(diff[1]) THEN callsBefore + 1 ELSE 0
       IN [i \in 1..Len(diff[1].value) |->
             [kind |-> diff[1].kind, nth |-> nth]]
          \o DiffLinesOf(Tail(diff),
                         IF nth = 0 THEN callsBefore ELSE nth)

\* The position of the k-th line of a diff in the old and in the new text.
OldPos(ls, k) == Cardinality({j \in 1..k : ls[j].kind # "added"})
NewPos(ls, k) == Cardinality({j \in 1..k : ls[j].kind # "removed"})

\* bin.ts 85-90: the lines of the old output at the given positions that
\* the diff finds unchanged, by their positions in the new output.
Carried(diff, positions) ==
  LET ls == DiffLinesOf(diff, 0)
  IN {NewPos(ls, k) : k \in {j \in 1..Len(ls) :
                                ls[j].kind = "unchanged"
                                /\ OldPos(ls, j) \in positions}}

\* bin.ts 93-95: the lines, by their positions in the new output, of the
\* first calls exec calls of the reduce.
Run(diff, calls) ==
  LET ls == DiffLinesOf(diff, 0)
  IN {NewPos(ls, k) : k \in {j \in 1..Len(ls) :
                                ls[j].nth > 0 /\ ls[j].nth <= calls}}

\* bin.ts 93-95: the lines of the added hunks after the throwAt-th, which
\* the reduce never reaches when that one throws (0: none throws).
Skipped(diff, throwAt) ==
  LET ls == DiffLinesOf(diff, 0)
  IN IF throwAt = 0 THEN {}
     ELSE {NewPos(ls, k) : k \in {j \in 1..Len(ls) : ls[j].nth > throwAt}}

(***************************************************************************)
(* State.                                                                  *)
(***************************************************************************)
VARIABLES
  EVAL_INSTANCE, \* bin.ts 62: [input, output, version, lines]
  resetEval,     \* bin.ts 133: the bookmark handle of startRepl
  pc,            \* where the program is: "boot", "preload", "compile",
                 \* "typeinfo" (inside a handler), "done" (a handler has
                 \* just ended), "idle" (waiting for input), "exited"
  undo,          \* bin.ts 74, 174: the handle of the handler in progress
  isCompletion,  \* bin.ts 73
  call,          \* the bridge call in progress
  pre,           \* EVAL_INSTANCE when the current event began
  event,         \* the current front-end event
  thrown,        \* what the bridge or exec threw in this event, and where
  changes,       \* bin.ts 85: the diff of this submission
  executed,      \* the code blocks handed to exec / run in this event
  callback,      \* bin.ts 222: what replEval handed to the front end
  stderr,        \* bin.ts 215: whether console.error printed diagnostics
  ran,           \* the lines run by committed submissions since the bookmark
  kept,          \* whether every commit since the bookmark kept the lines
                 \* of the output before it
  fragment,      \* bin.ts 71, 168, 193: the text handed to the handler
  submitted,     \* the fragments committed since the bookmark, concatenated
  skipped,       \* the lines of the stored output (their positions) that a
                 \* throw of an earlier block kept from running
  uses           \* how often the bookmark handle and the handle of the
                 \* handler in progress have been invoked

vars == <<EVAL_INSTANCE, resetEval, pc, undo, isCompletion, call, pre, event,
          thrown, changes, executed, callback, stderr, ran, kept, fragment,
          submitted, skipped, uses>>

EVAL_PATH == "[eval].ts"

\* What reading a path gives that holds no file.
Absent == [exists |-> FALSE, text |-> <<>>]
Present(text) == [exists |-> TRUE, text |-> text]

\* The files on disk that the session's compiles read: none.
DiskFiles == {}

\* bin.ts 273-281: the buffer for the eval path, else the file on disk, or
\* nothing when reading it fails.
readFileEval(path) ==
  IF path = EVAL_PATH THEN Present(EVAL_INSTANCE.input)
  ELSE IF path \in DiskFiles THEN Present(<<>>) ELSE Absent

\* bin.ts 286-295: true for the eval path, else whether the disk holds a
\* file (or FIFO) at the path.
fileExistsEval(path) ==
  IF path = EVAL_PATH THEN TRUE ELSE path \in DiskFiles

NoCall == [fn |-> "none", source |-> <<>>, path |-> "", arg |-> 0]
NoThrow == [by |-> "none", error |-> NoError]
NoCallback == [called |-> FALSE, err |-> NoError, result |-> Undefined]
Empty == [input |-> <<>>, output |-> <<>>, version |-> 0, lines |-> 0]
NoUses == [resetEval |-> 0, undo |-> 0]

\* The count that stands for a handle invoked more than once (bin.ts 142
\* and 143 for the bookmark): a second and any further invocation.
Reused == 2

\* One more invocation of a handle.
Invoked(n) == IF n < Reused THEN n + 1 ELSE n

\* bin.ts 60-62: the module's state when startRepl is entered.
Init ==
  /\ EVAL_INSTANCE = Empty
  /\ resetEval = Empty
  /\ pc = "boot"
  /\ undo = Empty
  /\ isCompletion = FALSE
  /\ call = NoCall
  /\ pre = Empty
  /\ event = "boot"
  /\ thrown = NoThrow
  /\ changes = <<>>
  /\ executed = <<>>
  /\ callback = NoCallback
  /\ stderr = FALSE
  /\ ran = <<>>
  /\ kept = TRUE
  /\ fragment = <<>>
  /\ submitted = <<>>
  /\ skipped = {}
  /\ uses = NoUses

\* reset restoring the version as appendEval('') left it.
resetToAppended(handle) == [Undo(handle) EXCEPT !.version = @ + 1]

\* bin.ts 135-140: reset, the instance it leaves.
reset(handle) == Undo(handle)

(***************************************************************************)
(* startRepl (bin.ts 110-164) up to the compile call of the preload: the   *)
(* bookmark, the first reset, and the main file read when one is named.    *)
(***************************************************************************)
StartRepl(hasMainFile, fileText) ==
  /\ pc = "boot"
  \* bin.ts 133: appendEval('') returns the bookmark (and counts a version);
  \* bin.ts 142: the first reset invokes it.
  /\ resetEval' = appendEval(EVAL_INSTANCE, <<>>).undo
  /\ EVAL_INSTANCE' = reset(resetEval')
  /\ pre' = EVAL_INSTANCE
  /\ event' = "start"
  /\ executed' = <<ExportsFix>>
  /\ IF hasMainFile
     THEN /\ pc' = "preload"
          /\ call' = [fn |-> "compile", source |-> fileText \o <<NL>>,
                      path |-> EVAL_PATH, arg |-> 0]
     ELSE /\ pc' = "done"
          /\ call' = NoCall
  /\ UNCHANGED <<undo, isCompletion, thrown, changes, callback, stderr, ran,
                 kept>>
  /\ uses' = [resetEval |-> Invoked(uses.resetEval), undo |-> 0]
  /\ UNCHANGED <<fragment, submitted, skipped>>

\* bin.ts 147: compile throws; nothing catches it and the process ends.
PreloadThrow(error) ==
  /\ pc = "preload"
  /\ ~Compiles(call.source)
  /\ thrown' = [by |-> "compile", error |-> error]
  /\ call' = NoCall
  /\ pc' = "exited"
  /\ UNCHANGED <<EVAL_INSTANCE, resetEval, undo, isCompletion, pre, event,
                 changes, executed, callback, stderr, ran, kept>>
  /\ UNCHANGED <<fragment, submitted, skipped, uses>>

\* bin.ts 147-163: compile returns; the output is stored, the file text
\* appended and the whole output run as one script, which returns or throws
\* (uncaught: the process ends).
PreloadReturn(scriptThrows) ==
  /\ pc = "preload"
  /\ Compiles(call.source)
  /\ LET output == compile(call.source)
     IN /\ EVAL_INSTANCE' =
             appendEval([EVAL_INSTANCE EXCEPT !.output = output],
                        call.source).instance
        /\ executed' = Append(executed, output)
        /\ ran' = output
  /\ IF scriptThrows
     THEN pc' = "exited" /\ thrown' = [by |-> "exec", error |-> PlainError]
     ELSE pc' = "done" /\ thrown' = NoThrow
  /\ call' = NoCall
  /\ UNCHANGED <<resetEval, undo, isCompletion, pre, event, changes,
                 callback, stderr, kept>>
  /\ submitted' = call.source
  /\ UNCHANGED <<fragment, skipped, uses>>

(***************************************************************************)
(* replEval (bin.ts 192-223) and _eval (bin.ts 71-96).  A submission runs  *)
(* from the front end's call to the compile call (ReplEval), and from the  *)
(* bridge's answer to the callback (CompileReturn, CompileThrow).          *)
(***************************************************************************)
\* bin.ts 202-205: the code '.scope' is answered at once.
Scope ==
  /\ pc = "idle"
  /\ event' = "scope"
  /\ pre' = EVAL_INSTANCE
  /\ callback' = [called |-> TRUE, err |-> NoError, result |-> Undefined]
  /\ call' = NoCall
  /\ thrown' = NoThrow
  /\ changes' = <<>>
  /\ executed' = <<>>
  /\ stderr' = FALSE
  /\ pc' = "done"
  /\ UNCHANGED <<EVAL_INSTANCE, resetEval, undo, isCompletion, ran, kept>>
  /\ fragment' = <<".", "s", "c", "o", "p", "e">>
  /\ UNCHANGED <<submitted, skipped, uses>>

\* The offset taken from the line count at the time of the compile call.
lineOffsetAtCall(before, appended) == -appended.lines

\* bin.ts 72, 78: lines is read before the append, and -lines handed on.
lineOffset(before, appended) == -before.lines

\* bin.ts 72-78: up to the call of service.compile.
ReplEval(code) ==
  /\ pc = "idle"
  /\ Len(appendEval(EVAL_INSTANCE, code).instance.input) <= MaxInput
  /\ event' = "eval"
  /\ pre' = EVAL_INSTANCE
  /\ isCompletion' = ~EndsWithNewline(code)
  /\ undo' = appendEval(EVAL_INSTANCE, code).undo
  /\ EVAL_INSTANCE' = appendEval(EVAL_INSTANCE, code).instance
  /\ call' = [fn |-> "compile", source |-> EVAL_INSTANCE'.input,
              path |-> EVAL_PATH,
              arg |-> lineOffset(EVAL_INSTANCE, EVAL_INSTANCE')]
  /\ pc' = "compile"
  /\ thrown' = NoThrow
  /\ changes' = <<>>
  /\ executed' = <<>>
  /\ callback' = NoCallback
  /\ stderr' = FALSE
  /\ UNCHANGED <<resetEval, ran, kept>>
  /\ fragment' = code
  /\ uses' = [uses EXCEPT !.undo = 0]
  /\ UNCHANGED <<submitted, skipped>>

\* bin.ts 79-82 and 209-222: compile throws; undo, rethrow, catch, callback.
CompileThrow(error) ==
  /\ pc = "compile"
  /\ ~Compiles(call.source)
  /\ EVAL_INSTANCE' = Undo(undo)
  /\ thrown' = [by |-> "compile", error |-> error]
  /\ callback' = [called |-> TRUE, err |-> Caught(error).err,
                  result |-> Undefined]
  /\ stderr' = Caught(error).printed
  /\ call' = NoCall
  /\ pc' = "done"
  /\ UNCHANGED <<resetEval, undo, isCompletion, pre, event, changes,
                 executed, ran, kept>>
  /\ uses' = [uses EXCEPT !.undo = Invoked(@)]
  /\ UNCHANGED <<fragment, submitted, skipped>>

\* The branch of bin.ts 87-91 storing the output whatever the input ends in.
SettleAlwaysCommits(inst, handle, completion, output) ==
  [inst EXCEPT !.output = output]

\* bin.ts 85-91: the instance after the diff was taken.
Settle(inst, handle, completion, output) ==
  IF completion THEN Undo(handle) ELSE [inst EXCEPT !.output = output]

\* bin.ts 84-96 and 207-222: compile returns; diff, undo or commit, the exec
\* calls (the throwAt-th of them throws failure; 0: none throws), callback.
CompileReturn(throwAt, failure) ==
  /\ pc = "compile"
  /\ Compiles(call.source)
  /\ changes' = diffLines(EVAL_INSTANCE.output, compile(call.source))
  /\ throwAt \in 0..Len(ExecCalls(changes'))
  /\ EVAL_INSTANCE' =
       Settle(EVAL_INSTANCE, undo, isCompletion, compile(call.source))
  /\ executed' = IF throwAt = 0 THEN ExecCalls(changes')
                 ELSE SubSeq(ExecCalls(changes'), 1, throwAt)
  /\ IF throwAt = 0
     THEN /\ failure = PlainError
          /\ thrown' = NoThrow
          /\ callback' = [called |-> TRUE, err |-> NoError,
                          result |-> Reduce(changes', Undefined)]
          /\ stderr' = FALSE
     ELSE /\ thrown' = [by |-> "exec", error |-> failure]
          /\ callback' = [called |-> TRUE, err |-> Caught(failure).err,
                          result |-> Undefined]
          /\ stderr' = Caught(failure).printed
  /\ IF isCompletion
     THEN UNCHANGED <<ran, kept>>
     ELSE /\ ran' = ran \o Flatten(executed')
          /\ kept' = (kept /\ IsPrefix(EVAL_INSTANCE.output,
                                       compile(call.source)))
  /\ call' = NoCall
  /\ pc' = "done"
  /\ UNCHANGED <<resetEval, undo, isCompletion, pre, event>>
  /\ uses' = [uses EXCEPT !.undo = IF isCompletion THEN Invoked(@) ELSE @]
  /\ submitted' = IF isCompletion THEN submitted ELSE submitted \o fragment
  /\ skipped' = IF isCompletion THEN skipped
                ELSE Carried(changes', skipped)
                       \cup Skipped(changes', throwAt)
  /\ UNCHANGED fragment

(***************************************************************************)
(* The .type command (bin.ts 166-186).                                     *)
(***************************************************************************)
\* bin.ts 169-172: no identifier, only the prompt.
TypeNothing ==
  /\ pc = "idle"
  /\ event' = "type"
  /\ pre' = EVAL_INSTANCE
  /\ call' = NoCall
  /\ thrown' = NoThrow
  /\ changes' = <<>>
  /\ executed' = <<>>
  /\ callback' = NoCallback
  /\ stderr' = FALSE
  /\ pc' = "done"
  /\ UNCHANGED <<EVAL_INSTANCE, resetEval, undo, isCompletion, ran, kept>>
  /\ fragment' = <<>>
  /\ UNCHANGED <<submitted, skipped, uses>>

\* bin.ts 174-179: up to the call of service.getTypeInfo.
TypeCommand(identifier) ==
  /\ pc = "idle"
  /\ identifier # <<>>
  /\ Len(appendEval(EVAL_INSTANCE, identifier).instance.input) <= MaxInput
  /\ event' = "type"
  /\ pre' = EVAL_INSTANCE
  /\ undo' = appendEval(EVAL_INSTANCE, identifier).undo
  /\ EVAL_INSTANCE' = appendEval(EVAL_INSTANCE, identifier).instance
  /\ call' = [fn |-> "getTypeInfo", source |-> EVAL_INSTANCE'.input,
              path |-> EVAL_PATH, arg |-> Len(EVAL_INSTANCE'.input)]
  /\ pc' = "typeinfo"
  /\ thrown' = NoThrow
  /\ changes' = <<>>
  /\ executed' = <<>>
  /\ callback' = NoCallback
  /\ stderr' = FALSE
  /\ UNCHANGED <<resetEval, isCompletion, ran, kept>>
  /\ fragment' = identifier
  /\ uses' = [uses EXCEPT !.undo = 0]
  /\ UNCHANGED <<submitted, skipped>>

\* bin.ts 181-184: getTypeInfo returns; undo, write, prompt.
TypeInfoReturn ==
  /\ pc = "typeinfo"
  /\ EVAL_INSTANCE' = Undo(undo)
  /\ call' = NoCall
  /\ pc' = "done"
  /\ UNCHANGED <<resetEval, undo, isCompletion, pre, event, thrown, changes,
                 executed, callback, stderr, ran, kept>>
  /\ uses' = [uses EXCEPT !.undo = Invoked(@)]
  /\ UNCHANGED <<fragment, submitted, skipped>>

\* bin.ts 175-179: getTypeInfo throws; the action is left at once, and the
\* lines after the call (the undo among them) are not run.
TypeInfoThrow ==
  /\ pc = "typeinfo"
  /\ thrown' = [by |-> "getTypeInfo", error |-> PlainError]
  /\ call' = NoCall
  /\ pc' = "done"
  /\ UNCHANGED <<EVAL_INSTANCE, resetEval, undo, isCompletion, pre, event,
                 changes, executed, callback, stderr, ran, kept>>
  /\ UNCHANGED <<fragment, submitted, skipped, uses>>

(***************************************************************************)
(* The REPL's reset event (bin.ts 135-143).                                *)
(***************************************************************************)
Reset ==
  /\ pc = "idle"
  /\ event' = "reset"
  /\ pre' = EVAL_INSTANCE
  /\ EVAL_INSTANCE' = reset(resetEval)
  /\ executed' = <<ExportsFix>>
  /\ call' = NoCall
  /\ thrown' = NoThrow
  /\ changes' = <<>>
  /\ callback' = NoCallback
  /\ stderr' = FALSE
  /\ ran' = <<>>
  /\ kept' = TRUE
  /\ pc' = "done"
  /\ UNCHANGED <<resetEval, undo, isCompletion>>
  /\ uses' = [uses EXCEPT !.resetEval = Invoked(@)]
  /\ submitted' = <<>>
  /\ skipped' = {}
  /\ fragment' = <<>>

(***************************************************************************)
(* The front end takes what the handler left (the callback's arguments,    *)
(* the text written) and prompts for the next input: the records of the    *)
(* finished event are dropped, the program's own state stays.              *)
(***************************************************************************)
Prompt ==
  /\ pc = "done"
  /\ pc' = "idle"
  /\ event' = "none"
  /\ pre' = Empty
  /\ undo' = Empty
  /\ isCompletion' = FALSE
  /\ thrown' = NoThrow
  /\ changes' = <<>>
  /\ executed' = <<>>
  /\ callback' = NoCallback
  /\ stderr' = FALSE
  /\ UNCHANGED <<EVAL_INSTANCE, resetEval, call, ran, kept>>
  /\ fragment' = <<>>
  /\ uses' = [uses EXCEPT !.undo = 0]
  /\ UNCHANGED <<submitted, skipped>>

\* What the REPL passes to a command: one token, no line break.
Identifiers == {t \in Texts(0, MaxIdent) : lineCount(t) = 0}

\* What the front end hands to replEval, and what a main file may hold.
Fragments == Texts(1, MaxFrag)
MainFiles == Texts(0, MaxFrag)

Next ==
  \/ \E hasMainFile \in BOOLEAN, fileText \in MainFiles :
       StartRepl(hasMainFile, fileText)
  \/ \E error \in SampleErrors : PreloadThrow(error)
  \/ \E scriptThrows \in BOOLEAN : PreloadReturn(scriptThrows)
  \/ Scope
  \/ \E code \in Fragments : ReplEval(code)
  \/ \E error \in SampleErrors : CompileThrow(error)
  \/ \E throwAt \in 0..MaxInput, failure \in RuntimeErrors :
       CompileReturn(throwAt, failure)
  \/ TypeNothing
  \/ \E identifier \in Identifiers : TypeCommand(identifier)
  \/ TypeInfoReturn
  \/ TypeInfoThrow
  \/ Reset
  \/ Prompt

Spec == Init /\ [][Next]_vars

(***************************************************************************)
(* The classification of compile failures on its own: the same handlers,   *)
(* the submissions narrowed to a blank line and the fragments the compiler *)
(* rejects, the bridge free to throw any TSError of up to MaxCodes codes.  *)
(***************************************************************************)
RejectedFragments == {t \in Fragments : ~Compiles(t)} \cup {<<NL>>}

NextClassify ==
  \/ StartRepl(FALSE, <<>>)
  \/ \E code \in RejectedFragments : ReplEval(code)
  \/ \E error \in CompileErrors : CompileThrow(error)
  \/ CompileReturn(0, PlainError)
  \/ Prompt

SpecClassify == Init /\ [][NextClassify]_vars

(***************************************************************************)
(* Sessions of valid statements only: no main file, every submission a     *)
(* newline-terminated fragment the compiler accepts, no executed block     *)
(* throwing, and resets, each of which begins a fresh session.             *)
(***************************************************************************)
ValidStatements ==
  {t \in Fragments : Compiles(t) /\ EndsWithNewline(t)}

NextBatch ==
  \/ StartRepl(FALSE, <<>>)
  \/ \E code \in ValidStatements : ReplEval(code)
  \/ CompileReturn(0, PlainError)
  \/ Reset
  \/ Prompt

SpecBatch == Init /\ [][NextBatch]_vars

\* What one submission of the text to a fresh session hands to exec
\* (bin.ts 71-96 on the instance of bin.ts 62).
BatchExecuted(text) ==
  LET appended == appendEval(Empty, text).instance
  IN ExecCalls(diffLines(appended.output, compile(appended.input)))

(***************************************************************************)
(* appendEval (bin.ts 228-253) on its own: applied once to an existing     *)
(* input and a fragment drawn from the characters its three tests tell     *)
(* apart ("a" stands for any other character), and then undone.            *)
(***************************************************************************)
OldChar == {"a", ";", " ", NL}
NewChar == {"(", "[", Backtick, " ", NL, "a"}

TextsOver(chars, hi) == UNION {[1..n -> chars] : n \in 0..hi}

InitAppend ==
  /\ EVAL_INSTANCE \in {[input |-> t, output |-> <<>>, version |-> 1,
                          lines |-> lineCount(t)] :
                           t \in TextsOver(OldChar, MaxOld)}
  /\ resetEval = Empty
  /\ pc = "appendEval"
  /\ undo = Empty
  /\ isCompletion = FALSE
  /\ call = NoCall
  /\ pre = Empty
  /\ event = "none"
  /\ thrown = NoThrow
  /\ changes = <<>>
  /\ executed = <<>>
  /\ callback = NoCallback
  /\ stderr = FALSE
  /\ ran = <<>>
  /\ kept = TRUE
  /\ fragment = <<>>
  /\ submitted = <<>>
  /\ skipped = {}
  /\ uses = NoUses

\* bin.ts 228-246: the call, to the return of the closure.
AppendEval(input) ==
  /\ pc = "appendEval"
  /\ pre' = EVAL_INSTANCE
  /\ fragment' = input
  /\ EVAL_INSTANCE' = appendEval(EVAL_INSTANCE, input).instance
  /\ undo' = appendEval(EVAL_INSTANCE, input).undo
  /\ pc' = "appended"
  /\ UNCHANGED <<resetEval, isCompletion, call, event, thrown, changes,
                 executed, callback, stderr, ran, kept, submitted, skipped,
                 uses>>

\* bin.ts 247-252: the closure is invoked.
UndoEval ==
  /\ pc = "appended"
  /\ EVAL_INSTANCE' = Undo(undo)
  /\ uses' = [uses EXCEPT !.undo = Invoked(@)]
  /\ pc' = "undone"
  /\ UNCHANGED <<resetEval, undo, isCompletion, call, pre, event, thrown,
                 changes, executed, callback, stderr, ran, kept, fragment,
                 submitted, skipped>>

NextAppend ==
  \/ \E input \in TextsOver(NewChar, MaxFrag) : AppendEval(input)
  \/ UndoEval

SpecAppend == InitAppend /\ [][NextAppend]_vars

(***************************************************************************)
(* Properties.                                                             *)
(***************************************************************************)
\* A handler has just ended, or the program waits for the next input.
Quiescent == pc \in {"done", "idle"}

\* C1 (as claimed; the code breaks it when getTypeInfo throws): after any
\* .type command, whether getTypeInfo returned or threw, input, output,
\* version and lines are what they were before the command.
C1_TypeQueryIsolation ==
  (pc = "done" /\ event = "type") => EVAL_INSTANCE = pre

\* C2 (as claimed; broken through the missing rollback of C1): at every
\* quiescent point the stored output is the compiler's result for the
\* stored input.
C2_Pairing ==
  Quiescent =>
    /\ Compiles(EVAL_INSTANCE.input)
    /\ EVAL_INSTANCE.output = compile(EVAL_INSTANCE.input)

\* The undo handle of the handler has been invoked right after the append,
\* nothing else having touched the instance.
HandleInvoked ==
  /\ pc = "done"
  /\ \/ event = "eval" /\ (thrown.by = "compile" \/ isCompletion)
     \/ event = "type" /\ thrown.by = "none"

\* C3: invoking the handle appendEval returned, with no other mutation in
\* between, gives back exactly the input, output, version and lines of
\* before the call, also when appendEval inserted a semicolon: both while
\* the handle is held right after the append and once it has been invoked.
C3_RollbackExact ==
  /\ pc \in {"compile", "typeinfo"} => Undo(undo) = pre
  /\ HandleInvoked => EVAL_INSTANCE = pre

\* C3's case: a handle is held after an append that inserted a semicolon
\* into the existing input.
C3_Witness ==
  /\ pc \in {"compile", "typeinfo"}
  /\ ~IsPrefix(pre.input, EVAL_INSTANCE.input)
  /\ EVAL_INSTANCE.version = pre.version + 1
  /\ pre.output # <<>>

\* C4: a submission whose compile call throws (an allow-listed TSError,
\* another TSError or any other error; newline-terminated or not) ends with
\* input, output, version and lines as before it and with nothing executed.
C4_CompileFailureRollsBack ==
  (pc = "done" /\ event = "eval" /\ thrown.by = "compile") =>
    /\ EVAL_INSTANCE = pre
    /\ executed = <<>>
    /\ changes = <<>>

\* C4's case: a newline-terminated submission to a non-empty buffer failed
\* with a TSError outside the allow-list.
C4_Witness ==
  /\ pc = "done" /\ event = "eval" /\ thrown.by = "compile"
  /\ ~isCompletion
  /\ thrown.error.type = "TSError" /\ ~isRecoverable(thrown.error)
  /\ pre.input # <<>> /\ pre.output # <<>>

ClaimedRecoveryCodes == {1003, 1005, 1109, 1126, 1160, 1161, 2355}

C7_FatalSurfacedAsError ==
  (pc = "done" /\ event = "eval" /\ thrown.by = "compile"
     /\ thrown.error.type = "TSError" /\ ~isRecoverable(thrown.error)) =>
    /\ stderr
    /\ callback.called
    /\ callback.err.type \notin {"none", "Recoverable"}

\* The values of the added hunks of a diff, in hunk order.
RECURSIVE AddedValues(_)
AddedValues(diff) ==
  IF diff = <<>> THEN <<>>
  ELSE (IF diff[1].kind = "added" THEN <<diff[1].value>> ELSE <<>>)
       \o AddedValues(Tail(diff))

\* The old and the new text a diff covers.
RECURSIVE OldSide(_)
OldSide(diff) ==
  IF diff = <<>> THEN <<>>
  ELSE (IF diff[1].kind = "added" THEN <<>> ELSE diff[1].value)
       \o OldSide(Tail(diff))

RECURSIVE NewSide(_)
NewSide(diff) ==
  IF diff = <<>> THEN <<>>
  ELSE (IF diff[1].kind = "removed" THEN <<>> ELSE diff[1].value)
       \o NewSide(Tail(diff))

\* The value of the last of some blocks, or no value.
LastValue(blocks) ==
  IF blocks = <<>> THEN Undefined ELSE ValueOf(Last(blocks))

\* C8: a submission without final line break whose compile returns leaves
\* input, output, version and lines as before it, also when the executed
\* code throws; it runs the added hunks and returns the last one's value.
C8_SpeculativeIsolation ==
  (pc = "done" /\ event = "eval" /\ isCompletion /\ thrown.by # "compile") =>
    /\ EVAL_INSTANCE = pre
    /\ thrown.by = "none" =>
         /\ executed = AddedValues(changes)
         /\ callback.result = LastValue(AddedValues(changes))
    /\ thrown.by = "exec" =>
         /\ executed # <<>>
         /\ IsPrefix(executed, AddedValues(changes))

\* C8's case: a fragment without line break, submitted to a buffer that
\* holds committed code, has run and returned a value.
C8_Witness ==
  /\ pc = "done" /\ event = "eval" /\ isCompletion /\ thrown.by = "none"
  /\ callback.result.def
  /\ pre.output # <<>>
  /\ pre.version > 0

\* C9 (as claimed; the code does not hand on a thrown TSError): when a
\* block of a newline-terminated submission throws, the callback gets the
\* thrown error itself, the blocks run so far stay run, and the instance is
\* the committed one: the fragment in the input, the output its compiled
\* text, the version one higher.
C9_RuntimeErrorDelivered ==
  (pc = "done" /\ event = "eval" /\ ~isCompletion /\ thrown.by = "exec") =>
    /\ callback.called
    /\ callback.err = thrown.error
    /\ ~stderr
    /\ executed # <<>>
    /\ IsPrefix(executed, AddedValues(changes))
    /\ EVAL_INSTANCE.version = pre.version + 1
    /\ Len(EVAL_INSTANCE.input) > Len(pre.input)
    /\ EVAL_INSTANCE.output = compile(EVAL_INSTANCE.input)
    /\ EVAL_INSTANCE.output = NewSide(changes)

\* C10: in a submission that compiles and runs without a throw, the diff is
\* that of the output stored before against the new output, exec is called
\* once per added hunk, in hunk order, and for no other hunk, and the
\* result is the value of the last added hunk, or no value without one.
C10_ExecutionOrderAndResult ==
  (pc = "done" /\ event = "eval" /\ thrown.by = "none") =>
    /\ OldSide(changes) = pre.output
    /\ ~isCompletion => NewSide(changes) = EVAL_INSTANCE.output
    /\ executed = AddedValues(changes)
    /\ callback.called /\ callback.err = NoError
    /\ callback.result = LastValue(AddedValues(changes))

\* C10's case: a committed submission whose diff has a removed hunk, an
\* unchanged hunk and two added hunks.
C10_Witness ==
  /\ pc = "done" /\ event = "eval" /\ thrown.by = "none" /\ ~isCompletion
  /\ Len(AddedValues(changes)) = 2
  /\ \E i \in 1..Len(changes) : changes[i].kind = "removed"
  /\ \E i \in 1..Len(changes) : changes[i].kind = "unchanged"
  /\ callback.result = ValueOf(AddedValues(changes)[2])
  /\ AddedValues(changes)[1] # AddedValues(changes)[2]

\* C11: a newline-terminated submission whose compiled output is exactly
\* the output stored before makes no exec call and hands the front end no
\* value and no error, and is committed all the same: the input is the old
\* input followed by the fragment, lines has grown by the fragment's line
\* breaks, version by one, and the output is the one stored before.
C11_IdempotentNoOp ==
  (pc = "done" /\ event = "eval" /\ ~isCompletion /\ thrown.by # "compile"
     /\ compile(EVAL_INSTANCE.input) = pre.output) =>
    /\ executed = <<>>
    /\ thrown.by = "none"
    /\ callback = [called |-> TRUE, err |-> NoError, result |-> Undefined]
    /\ EVAL_INSTANCE.input = pre.input \o fragment
    /\ EVAL_INSTANCE.lines = pre.lines + lineCount(fragment)
    /\ EVAL_INSTANCE.lines > pre.lines
    /\ EVAL_INSTANCE.version = pre.version + 1
    /\ EVAL_INSTANCE.output = pre.output

\* C11's case: a blank line submitted to a buffer whose output is not
\* empty has been committed with nothing run.
C11_Witness ==
  /\ pc = "done" /\ event = "eval" /\ ~isCompletion /\ thrown.by = "none"
  /\ pre.output # <<>>
  /\ compile(EVAL_INSTANCE.input) = pre.output
  /\ EVAL_INSTANCE.version = pre.version + 1
  /\ executed = <<>>

\* C12 (as claimed; the code runs a rewritten line again): in a session of
\* valid newline-terminated statements submitted one at a time, the lines
\* executed so far, in order, are the lines executed when the statements
\* are submitted to a fresh session as one text.
C12_IncrementalEqualsBatch ==
  Quiescent => ran = Flatten(BatchExecuted(submitted))

\* C13 (as claimed; the code invokes the bookmark at startup and again at
\* every reset event): no handle appendEval returned is invoked more than
\* once, neither the bookmark nor the handle of a submission or type query.
C13_HandlesSingleUse ==
  /\ uses.resetEval <= 1
  /\ uses.undo <= 1

\* C14: in every reachable state (between the handlers and inside them,
\* after a semicolon insertion, a rollback, the preload and a reset) lines
\* is the number of line breaks in input, and so is the lines a held
\* handle would restore for the input it would restore.
C14_LineCount ==
  /\ EVAL_INSTANCE.lines = lineCount(EVAL_INSTANCE.input)
  /\ undo.lines = lineCount(undo.input)
  /\ resetEval.lines = lineCount(resetEval.input)

\* C14's case: inside a submission whose append inserted a semicolon into
\* a buffer of more than one line.
C14_Witness ==
  /\ pc = "compile"
  /\ ~IsPrefix(pre.input, EVAL_INSTANCE.input)
  /\ pre.lines >= 1
  /\ EVAL_INSTANCE.lines >= 2

\* C15 (as claimed): while compile is called for a submission, its source
\* is the buffer after the append, its path the virtual path, and its
\* offset is negative and minus the line count at that moment.
C15_LineOffsetAtCallTime ==
  pc = "compile" =>
    /\ call.fn = "compile"
    /\ call.source = EVAL_INSTANCE.input
    /\ call.path = EVAL_PATH
    /\ call.arg < 0
    /\ call.arg = -EVAL_INSTANCE.lines

\* C15 (amended): while compile is called for a submission, its source is
\* the buffer after the append, its path the virtual path, and its offset
\* is zero or negative and minus the line count of before the append, the
\* lines that precede the fragment; for the main file the source is the
\* file's text with a line break and the offset 0.
C15_LineOffsetBeforeAppend ==
  /\ pc = "compile" =>
       /\ call.fn = "compile"
       /\ call.source = EVAL_INSTANCE.input
       /\ call.source = appendEval(pre, fragment).instance.input
       /\ call.path = EVAL_PATH
       /\ call.arg <= 0
       /\ call.arg = -pre.lines
       /\ call.arg = -(EVAL_INSTANCE.lines - lineCount(fragment))
  /\ pc = "preload" =>
       /\ call.fn = "compile"
       /\ EndsWithNewline(call.source)
       /\ call.path = EVAL_PATH
       /\ call.arg = 0

\* C15's case: compile is called for a fragment with a line break that
\* follows committed lines.
C15_Witness ==
  /\ pc = "compile"
  /\ pre.lines >= 1
  /\ call.arg < 0
  /\ EVAL_INSTANCE.lines > pre.lines

\* The three conditions of C16 as the claim words them.
ClaimedEndsInNewline(text) == text # <<>> /\ text[Len(text)] = NL

ClaimedBeginsWithOpener(text) ==
  \E k \in 1..Len(text) :
    /\ text[k] \in {"[", "(", Backtick}
    /\ \A j \in 1..(k - 1) : text[j] \in Whitespace

ClaimedEndsWithSemicolon(text) ==
  \E k \in 1..Len(text) :
    /\ text[k] = ";"
    /\ \A j \in (k + 1)..Len(text) : text[j] \in Whitespace

Semicolons(text) == Cardinality({k \in 1..Len(text) : text[k] = ";"})

\* C16: appendEval(fragment) gives the old input with one semicolon put
\* before its final line break, followed by the fragment, if and only if
\* the old input ends in a line break, the fragment after leading
\* whitespace begins with a square bracket, a parenthesis or a backtick,
\* and the old input does not end with a semicolon followed only by
\* whitespace; in every other case it gives the old input followed by the
\* fragment.
C16_AsiGuard ==
  pc = "appended" =>
    IF /\ ClaimedEndsInNewline(pre.input)
       /\ ClaimedBeginsWithOpener(fragment)
       /\ ~ClaimedEndsWithSemicolon(pre.input)
    THEN /\ EVAL_INSTANCE.input =
              SubSeq(pre.input, 1, Len(pre.input) - 1) \o <<";", NL>>
                \o fragment
         /\ Semicolons(EVAL_INSTANCE.input)
              = Semicolons(pre.input) + Semicolons(fragment) + 1
    ELSE EVAL_INSTANCE.input = pre.input \o fragment

\* C16's case: the old input ends in a line break and the fragment begins
\* with an opener after whitespace, but no semicolon is inserted because
\* the old input ends with a semicolon, a blank and the line break.
C16_Witness ==
  /\ pc = "appended"
  /\ pre.input = <<";", " ", NL>>
  /\ fragment = <<" ", "[">>
  /\ EVAL_INSTANCE.input = <<";", " ", NL, " ", "[">>

\* C17 (as claimed; broken through the missing rollback of C1): at the
\* end of a submission or type query version is not below what it was
\* before; it is one higher after a committed submission, and the same
\* after a submission rolled back (compile failure, fragment without final
\* line break) and after a type query.
C17_VersionMonotonic ==
  (pc = "done" /\ event \in {"eval", "type", "scope"}) =>
    /\ EVAL_INSTANCE.version >= pre.version
    /\ (event = "eval" /\ thrown.by # "compile" /\ ~isCompletion) =>
         EVAL_INSTANCE.version = pre.version + 1
    /\ (event = "eval" /\ (thrown.by = "compile" \/ isCompletion)) =>
         EVAL_INSTANCE.version = pre.version
    /\ event \in {"type", "scope"} => EVAL_INSTANCE.version = pre.version

\* C18 (as claimed; in the preload compile is called before the file's
\* text is appended): whenever compile or getTypeInfo is in progress with
\* the eval path, readFileEval gives for that path the source text of the
\* call and fileExistsEval gives true, in submissions, type queries and
\* the main-file preload.
C18_VirtualPathLive ==
  (pc \in {"compile", "typeinfo", "preload"} /\ call.path = EVAL_PATH) =>
    /\ readFileEval(call.path) = Present(call.source)
    /\ fileExistsEval(call.path)

\* C19: after a reset event, whatever came before it (a preload,
\* submissions, type queries, earlier resets), input and output are empty
\* and version and lines are 0, the values the bookmark holds; and a
\* submission made to that state is diffed against the empty output, so
\* that all of its compiled output is handed to exec.
C19_ResetToBookmark ==
  /\ pc # "boot" => resetEval = Empty
  /\ (pc = "done" /\ event = "reset") => EVAL_INSTANCE = Empty
  /\ (pc = "done" /\ event = "eval" /\ thrown.by # "compile"
        /\ pre = Empty) =>
       /\ OldSide(changes) = <<>>
       /\ Flatten(AddedValues(changes)) = NewSide(changes)
       /\ NewSide(changes) = compile(fragment)

\* C19's case: a reset event in a session that holds a preloaded main file
\* and committed submissions.
C19_Witness ==
  /\ pc = "done" /\ event = "reset"
  /\ pre.version >= 2
  /\ pre.output # <<>>
  /\ pre.lines >= 2
  /\ uses.resetEval >= 2
  /\ EVAL_INSTANCE = Empty

\* C20: when a block of a committed submission throws, the added hunks
\* after it are not run in that submission, and the new output is stored
\* all the same; and in every later submission each line so skipped is a
\* line of an unchanged hunk of the diff and is not handed to exec, until a
\* reset.
C20_SkippedNeverRun ==
  /\ [](  (pc = "done" /\ event = "eval" /\ ~isCompletion
            /\ thrown.by = "exec") =>
           /\ IsPrefix(executed, AddedValues(changes))
           /\ EVAL_INSTANCE.output = NewSide(changes)
           /\ Skipped(changes, Len(executed)) \subseteq skipped
           /\ Run(changes, Len(executed)) \cap skipped = {}  )
  /\ [][ (pc = "compile" /\ pc' = "done" /\ thrown'.by # "compile") =>
          /\ \A p \in skipped :
               \E q \in Carried(changes', {p}) :
                 q \notin Run(changes', Len(executed'))
          /\ Cardinality(skipped') >= Cardinality(skipped)
        ]_vars
  /\ [][ skipped' = {} =>
          (skipped = {} \/ (pc = "idle" /\ event' = "reset")) ]_vars

\* C20's case: a submission that runs a block, made after an earlier
\* committed submission had a block thrown and a later block skipped.
C20_Witness ==
  /\ pc = "done" /\ event = "eval" /\ thrown.by = "none"
  /\ skipped # {}
  /\ executed # <<>>
  /\ Len(ran) < Len(EVAL_INSTANCE.output)

====
